---- MODULE Spec2Model ----
(***************************************************************************)
(* Notes API (src/backend/main.py): the note collection, the upload        *)
(* directory and the request handlers of the FastAPI service.              *)
(*                                                                         *)
(* Every handler is a coroutine; the document store is reached only at its *)
(* awaits.  list_notes, get_note, update_note and delete_note perform one  *)
(* store operation each and are single steps; so is create_note, whose     *)
(* read-back of the inserted note changes nothing.  upload_images and      *)
(* delete_image read the note (find_one), work on the upload directory and *)
(* then write the note (find_one_and_update): they are two steps, and the  *)
(* steps of other requests may fall between the read and the write.  The   *)
(* file work is joined to the read step: it touches only the upload        *)
(* directory, under names no other request holds (upload) or by an         *)
(* idempotent removal (delete), so it commutes with the store operations   *)
(* of the other requests.                                                  *)
(*                                                                         *)
(* Spec is the service under every shape of request, with one note;        *)
(* ListSpec is the service with several notes under one shape of each      *)
(* request.                                                                *)
(***************************************************************************)
EXTENDS Integers, Sequences, FiniteSets, TLC

VARIABLES
    notes,      \* the "notes" collection: a function from stored _id to document
    files,      \* the file names present in UPLOAD_DIR
    nextId,     \* the number of _ids insert_one has assigned so far, plus one
    nextName,   \* the number of uuid4 names drawn so far, plus one
    clock,      \* datetime.utcnow()
    pc,         \* per request slot: where its handler is suspended
    local,      \* per request slot: the handler's local variables
    served      \* the response to the request served last.  A request that
                \* was refused for its note id (no such note, malformed id),
                \* or an upload refused for its first file, leaves no trace
                \* here: what it is answered is what its handler gives in
                \* that state
VARIABLE
    rt          \* history: the upload-then-delete round trip under way, if any

vars == <<notes, files, nextId, nextName, clock, pc, local, served, rt>>

----------------------------------------------------------------------------
(* Bounds of the model *)

NumProcs == 2       \* requests in flight at once
MaxNotes == 1       \* notes ever created
MaxNames == 2       \* uuid4 names ever drawn
MaxClock == 1       \* ticks of the clock
MaxUpload == 2      \* files in one upload request
MaxListNotes == 3   \* notes ever created, in ListSpec
MaxListClock == 2   \* ticks of the clock, in ListSpec

----------------------------------------------------------------------------
(* Program constants *)

\* main.py:204, MAX_FILES_PER_NOTE; read from the environment (default "5"),
\* the model runs the service configured with the value below.
MAX_FILES_PER_NOTE == 2
\* main.py:205
MAX_FILE_SIZE_MB == 5
\* main.py:36 and 46, Field(min_length=1, max_length=200)
TITLE_MIN_LENGTH == 1
TITLE_MAX_LENGTH == 200
\* bson.ObjectId: a str is valid iff it is 24 hexadecimal characters
OBJECTID_HEX_LEN == 24

ALLOWED_MIME == {"image/jpeg", "image/png", "image/webp"}

Procs == 1..NumProcs

----------------------------------------------------------------------------
(* Identifiers.  A note_id path parameter is a string, modelled by what    *)
(* ObjectId.is_valid reads of it: its length and whether all characters    *)
(* are hexadecimal; k tells apart strings that agree on both.              *)

\* the i-th ObjectId the driver generates
ObjectId(i) == [len |-> OBJECTID_HEX_LEN, hex |-> TRUE, k |-> i]
WellFormedIds == {ObjectId(i) : i \in 1..MaxNotes}
MalformedIds == {[len |-> OBJECTID_HEX_LEN, hex |-> FALSE, k |-> 1]}
RequestIds == WellFormedIds \cup MalformedIds

ObjectIdIsValid(v) == v.len = OBJECTID_HEX_LEN /\ v.hex

\* PyObjectId.validate(v) for a str: the ObjectId, or ValueError
PyObjectId_validate(v) ==
    IF ~ObjectIdIsValid(v)
    THEN [exc |-> "ValueError", value |-> v]
    ELSE [exc |-> "none", value |-> v]

----------------------------------------------------------------------------
(* References and files.  A reference is the string "<dir><hex><ext>"; a   *)
(* file of UPLOAD_DIR is named "<hex><ext>".                               *)

FileName(n, ext) == [hex |-> n, ext |-> ext]
Ref(dir, name) == [dir |-> dir, name |-> name]

\* url.startswith("/uploads/")
StartsWithUploads(url) == url.dir = "/uploads/"
\* os.path.basename(url)
Basename(url) == url.name

\* a reference that names nothing in UPLOAD_DIR
ExternalRef == Ref("http://cdn/", FileName(0, ".png"))
NoRef == Ref("", FileName(0, ""))

Ext(content_type) ==
    CASE content_type = "image/jpeg" -> ".jpg"
      [] content_type = "image/png" -> ".png"
      [] content_type = "image/webp" -> ".webp"

Range(s) == {s[i] : i \in 1..Len(s)}
Min(a, b) == IF a <= b THEN a ELSE b

\* the file a reference is served from: "/uploads/<name>" is UPLOAD_DIR/<name>
\* (the StaticFiles mount); any other reference names no file of the store
Exists(url) == url.dir = "/uploads/" /\ url.name \in files

----------------------------------------------------------------------------
(* Request payloads.  A title is modelled by its length, the only thing    *)
(* the schema reads of it.                                                 *)

TitleLens == {0, 1, 200, 201}
Contents == {"", "c"}

\* mutant: the bounds are exclusive
TitleValid_exclusive(title) == title > TITLE_MIN_LENGTH /\ title < TITLE_MAX_LENGTH

\* Field(..., min_length=1, max_length=200)
TitleValid(title) == title >= TITLE_MIN_LENGTH /\ title <= TITLE_MAX_LENGTH

\* the references a client can put in a request: those it has seen in a
\* stored note, and one outside the upload directory
StoredRefs == UNION {Range(notes[i].images) : i \in DOMAIN notes}
KnownRefs == StoredRefs \cup {ExternalRef}
\* the images of a Create payload: none, or one reference repeated, up to one
\* more than the quota
PayloadImages == {[i \in 1..n |-> r] : r \in KnownRefs, n \in 0..(MAX_FILES_PER_NOTE + 1)}
\* the url of a DeleteImage request: also the reference of any file of the
\* upload directory
FileRefs == {Ref("/uploads/", f) : f \in files}
RequestRefs == KnownRefs \cup FileRefs

\* NoteCreate: title required, content defaults to "", images to []
NoteCreatePayloads ==
    {[title |-> t, content |-> c, images |-> im] :
        t \in TitleLens, c \in Contents, im \in PayloadImages}
NoteCreate_validate(payload) == TitleValid(payload.title)

\* NoteUpdate: the dict model_dump(exclude_unset=True) gives, its keys the
\* fields the request set
EmptyDict == [f \in {} |-> 0]
NoteUpdatePayloads ==
    {EmptyDict} \cup {[title |-> t] : t \in TitleLens}
                \cup {[content |-> c] : c \in Contents}
                \cup {[title |-> t, content |-> c] : t \in TitleLens, c \in Contents}
NoteUpdate_validate(payload) == "title" \in DOMAIN payload => TitleValid(payload.title)

\* uploaded files: declared content type and byte length of the data
MB == 1024 * 1024
SampleFiles ==
    {[content_type |-> "image/png", size |-> MAX_FILE_SIZE_MB * MB],
     [content_type |-> "image/jpeg", size |-> MAX_FILE_SIZE_MB * MB + 1],
     [content_type |-> "image/gif", size |-> MAX_FILE_SIZE_MB * MB + 1]}
UploadInputs == UNION {[1..n -> SampleFiles] : n \in 1..MaxUpload}

----------------------------------------------------------------------------
(* The document store *)

\* {"$set": fields} on one document
Set(doc, fields) ==
    [f \in DOMAIN doc \cup DOMAIN fields |-> IF f \in DOMAIN fields THEN fields[f] ELSE doc[f]]

\* mutant: upsert=True, a document is inserted when none matches (the fields
\* the update does not set are given the defaults of the schema)
find_one_and_update_upsert(coll, id, fields) ==
    [i \in DOMAIN coll \cup {id} |->
        IF i # id THEN coll[i]
        ELSE Set(IF id \in DOMAIN coll THEN coll[id]
                 ELSE [title |-> TITLE_MIN_LENGTH, content |-> "", images |-> <<>>,
                       created_at |-> fields.updated_at],
                 fields)]

\* find_one_and_update({"_id": id}, {"$set": fields}): the collection after it;
\* no document is inserted when none matches
find_one_and_update(coll, id, fields) ==
    [i \in DOMAIN coll |-> IF i = id THEN Set(coll[i], fields) ELSE coll[i]]

\* insert_one(doc) under the fresh _id id
insert_one(coll, id, doc) ==
    [i \in DOMAIN coll \cup {id} |-> IF i = id THEN doc ELSE coll[i]]

\* delete_one({"_id": id})
delete_one(coll, id) == [i \in DOMAIN coll \ {id} |-> coll[i]]

----------------------------------------------------------------------------
(* Exception handling of the handlers.  A handler body ends by returning   *)
(* (exc = "none") or by raising; the except clauses decide the response.   *)

Returned(status, detail) == [exc |-> "none", status |-> status, detail |-> detail]
Raised(exc, status, detail) == [exc |-> exc, status |-> status, detail |-> detail]

\* "except Exception as e: raise HTTPException(status_code=500, ...)":
\* HTTPException is an Exception, so it is caught here too
except_Exception(r, detail) ==
    IF r.exc = "none"
    THEN r
    ELSE [r EXCEPT !.exc = "HTTPException", !.status = 500, !.detail = detail]

\* "except HTTPException: raise" before "except Exception"
except_HTTPException_raise(r, detail) ==
    IF r.exc \in {"none", "HTTPException"}
    THEN r
    ELSE [r EXCEPT !.exc = "HTTPException", !.status = 500, !.detail = detail]

----------------------------------------------------------------------------
(* list_notes *)

\* a document as list_notes returns it: its fields and its "_id".  The model
\* has one representation for an ObjectId and for the 24 hexadecimal characters
\* str() renders it as: the conversion tells no two ids apart and merges none.
Item(id) == Set(notes[id], [_id |-> id])

\* the orders in which a cursor can give the documents of the collection
Cursors ==
    {c \in [1..Cardinality(DOMAIN notes) -> DOMAIN notes] :
        \A i, j \in DOMAIN c : i # j => c[i] # c[j]}

\* mutant: sort=[("updated_at", 1)]
sort_updated_at_ascending(c) ==
    \A i, j \in DOMAIN c : i < j => notes[c[i]].updated_at <= notes[c[j]].updated_at

\* sort=[("updated_at", -1)]: the store promises no order among equal keys
sort_updated_at(c) ==
    \A i, j \in DOMAIN c : i < j => notes[c[i]].updated_at >= notes[c[j]].updated_at

\* lines 129-134: the lists list_notes can return in this state
list_notes ==
    {[i \in DOMAIN c |-> Item(c[i])] : c \in {d \in Cursors : sort_updated_at(d)}}

----------------------------------------------------------------------------
(* get_note *)

get_note_try(note_id) ==
    IF PyObjectId_validate(note_id).exc # "none"
    THEN Raised("ValueError", 0, "Invalid ObjectId")
    ELSE IF note_id \notin DOMAIN notes
    THEN Raised("HTTPException", 404, "Note not found")
    ELSE Returned(200, "")

get_note(note_id) == except_Exception(get_note_try(note_id), "Failed to fetch note")

----------------------------------------------------------------------------
(* create_note *)

create_doc(payload, now) ==
    [title |-> payload.title, content |-> payload.content,
     images |-> payload.images, created_at |-> now, updated_at |-> now]

----------------------------------------------------------------------------
(* update_note *)

\* mutant: model_dump() without exclude_unset, the unset fields at their defaults
update_set_dump_all(update_data, now) ==
    Set([title |-> 0, content |-> ""], Set(update_data, [updated_at |-> now]))

\* mutant: the update also writes created_at
update_set_created_at(update_data, now) ==
    Set(update_data, [updated_at |-> now, created_at |-> now])

\* {**update_data, "updated_at": datetime.utcnow()}
update_set(update_data, now) == Set(update_data, [updated_at |-> now])

update_note_try(note_id) ==
    IF PyObjectId_validate(note_id).exc # "none"
    THEN Raised("ValueError", 0, "Invalid ObjectId")
    ELSE IF note_id \notin DOMAIN notes
    THEN Raised("HTTPException", 404, "Note not found")
    ELSE Returned(200, "")

update_note(note_id) == except_Exception(update_note_try(note_id), "Failed to update note")

\* the collection after update_note(note_id, payload)
update_note_store(note_id, payload) ==
    IF PyObjectId_validate(note_id).exc # "none"
    THEN notes
    ELSE find_one_and_update(notes, note_id, update_set(payload, clock))

----------------------------------------------------------------------------
(* delete_note *)

delete_note_try(note_id) ==
    IF PyObjectId_validate(note_id).exc # "none"
    THEN Raised("ValueError", 0, "Invalid ObjectId")
    ELSE IF note_id \notin DOMAIN notes
    THEN Raised("HTTPException", 404, "Note not found")
    ELSE Returned(204, "")

delete_note(note_id) == except_Exception(delete_note_try(note_id), "Failed to delete note")

delete_note_store(note_id) ==
    IF PyObjectId_validate(note_id).exc # "none" THEN notes ELSE delete_one(notes, note_id)

\* mutant: the files the removed note references are removed with it
delete_note_files_cascade(note_id) ==
    IF note_id \in DOMAIN notes
    THEN files \ {Basename(u) : u \in {v \in Range(notes[note_id].images) : StartsWithUploads(v)}}
    ELSE files

\* the upload directory after delete_note: the handler has no file operation
delete_note_files(note_id) == files

----------------------------------------------------------------------------
(* upload_images *)

\* remaining_slots = MAX_FILES_PER_NOTE - len(existing_images)
slots_remaining(existing_images) == MAX_FILES_PER_NOTE - Len(existing_images)

\* mutant: the quota check is "remaining_slots == 0"
quota_reached_exact(existing_images) == slots_remaining(existing_images) = 0

\* if remaining_slots <= 0
quota_reached(existing_images) == slots_remaining(existing_images) <= 0

\* mutant: the list is not cut to the free slots
to_process_uncut(fs, remaining_slots) == fs

\* files[:remaining_slots]
to_process(fs, remaining_slots) == SubSeq(fs, 1, Min(Len(fs), remaining_slots))

\* size_mb > MAX_FILE_SIZE_MB, with size_mb = len(data) / (1024 * 1024)
TooLarge(size) == size > MAX_FILE_SIZE_MB * MB

\* f"/uploads/{name}" for name = f"{uuid4().hex}{ext}"; the n-th uuid4 drawn
\* stands for a name no earlier draw gave
SavedUrl(n, content_type) == Ref("/uploads/", FileName(n, Ext(content_type)))

\* mutant: the size is checked before the type
RECURSIVE save_files_size_first(_, _, _, _)
save_files_size_first(tp, i, saved_urls, n) ==
    IF i > Len(tp)
    THEN [exc |-> "none", status |-> 200, detail |-> "", saved_urls |-> saved_urls, next |-> n]
    ELSE IF TooLarge(tp[i].size)
    THEN [exc |-> "HTTPException", status |-> 400, detail |-> "File too large",
          saved_urls |-> saved_urls, next |-> n]
    ELSE IF tp[i].content_type \notin ALLOWED_MIME
    THEN [exc |-> "HTTPException", status |-> 400, detail |-> "Unsupported type",
          saved_urls |-> saved_urls, next |-> n]
    ELSE save_files_size_first(tp, i + 1,
             Append(saved_urls, SavedUrl(n, tp[i].content_type)), n + 1)

\* the loop "for f in to_process", from its i-th file on, with the urls saved
\* so far and n the next uuid4; each saved url's file has been written
RECURSIVE save_files(_, _, _, _)
save_files(tp, i, saved_urls, n) ==
    IF i > Len(tp)
    THEN [exc |-> "none", status |-> 200, detail |-> "", saved_urls |-> saved_urls, next |-> n]
    ELSE IF tp[i].content_type \notin ALLOWED_MIME
    THEN [exc |-> "HTTPException", status |-> 400, detail |-> "Unsupported type",
          saved_urls |-> saved_urls, next |-> n]
    ELSE IF TooLarge(tp[i].size)
    THEN [exc |-> "HTTPException", status |-> 400, detail |-> "File too large",
          saved_urls |-> saved_urls, next |-> n]
    ELSE save_files(tp, i + 1, Append(saved_urls, SavedUrl(n, tp[i].content_type)), n + 1)

\* lines 211-240: the fetch, the quota check and the loop.  saved_urls are
\* the urls whose files were written, also when the loop raised.
upload_images_try(note_id, fs) ==
    IF PyObjectId_validate(note_id).exc # "none"
    THEN [exc |-> "ValueError", status |-> 0, detail |-> "Invalid ObjectId",
          saved_urls |-> <<>>, next |-> nextName]
    ELSE IF note_id \notin DOMAIN notes
    THEN [exc |-> "HTTPException", status |-> 404, detail |-> "Note not found",
          saved_urls |-> <<>>, next |-> nextName]
    ELSE IF quota_reached(notes[note_id].images)
    THEN [exc |-> "HTTPException", status |-> 400, detail |-> "Image limit reached",
          saved_urls |-> <<>>, next |-> nextName]
    ELSE save_files(to_process(fs, slots_remaining(notes[note_id].images)),
                    1, <<>>, nextName)

\* lines 251-255 on what lines 211-240 raise
upload_images_save(note_id, fs) ==
    except_HTTPException_raise(upload_images_try(note_id, fs), "Failed to upload images")

\* new_images = existing_images + saved_urls
upload_new_images(existing_images, saved_urls) == existing_images \o saved_urls

\* mutant: the write appends to the list the note holds now ("$push")
upload_images_store_push(note_id, existing_images, saved_urls) ==
    IF note_id \in DOMAIN notes
    THEN find_one_and_update(notes, note_id,
             [images |-> notes[note_id].images \o saved_urls, updated_at |-> clock])
    ELSE notes

\* lines 243-247: the collection after the write
upload_images_store(note_id, existing_images, saved_urls) ==
    find_one_and_update(notes, note_id,
        [images |-> upload_new_images(existing_images, saved_urls), updated_at |-> clock])

\* lines 248-250: "assert updated is not None" and the return
upload_images_persist_try(note_id) ==
    IF note_id \notin DOMAIN notes
    THEN Raised("AssertionError", 0, "")
    ELSE Returned(200, "")

upload_images_persist(note_id) ==
    except_HTTPException_raise(upload_images_persist_try(note_id), "Failed to upload images")

----------------------------------------------------------------------------
(* delete_image *)

\* mutant: the reference is not looked up in the note
url_in_images_unchecked(url, images) == TRUE

\* url in images
url_in_images(url, images) == url \in Range(images)

\* lines 261-266
delete_image_try(note_id, url) ==
    IF PyObjectId_validate(note_id).exc # "none"
    THEN Raised("ValueError", 0, "Invalid ObjectId")
    ELSE IF note_id \notin DOMAIN notes
    THEN Raised("HTTPException", 404, "Note not found")
    ELSE IF ~url_in_images(url, notes[note_id].images)
    THEN Raised("HTTPException", 404, "Image not found on this note")
    ELSE Returned(200, "")

delete_image_fetch(note_id, url) ==
    except_HTTPException_raise(delete_image_try(note_id, url), "Failed to delete image")

\* mutant: the removal looks for the file where it is not
remove_file_missed(dir, url) == dir

\* lines 269-275: the upload directory after the removal
remove_file(dir, url) ==
    IF StartsWithUploads(url) /\ Basename(url) \in dir
    THEN dir \ {Basename(url)}
    ELSE dir

\* new_images = [i for i in images if i != url]
delete_new_images(images, url) == SelectSeq(images, LAMBDA i : i # url)

\* lines 278-282: the collection after the write
delete_image_store(note_id, images, url) ==
    find_one_and_update(notes, note_id,
        [images |-> delete_new_images(images, url), updated_at |-> clock])

\* lines 283-285: "assert updated is not None" and the return
delete_image_persist_try(note_id) ==
    IF note_id \notin DOMAIN notes
    THEN Raised("AssertionError", 0, "")
    ELSE Returned(200, "")

delete_image_persist(note_id) ==
    except_HTTPException_raise(delete_image_persist_try(note_id), "Failed to delete image")

----------------------------------------------------------------------------
(* The state machine *)

NoId == [len |-> 0, hex |-> FALSE, k |-> 0]
\* removed is history: the files os.remove (line 273) removed for the request
NoLocal == [note_id |-> NoId, images |-> <<>>, saved_urls |-> <<>>, url |-> NoRef,
            nfiles |-> 0, removed |-> {}]
NoResp == [op |-> "none", status |-> 0, detail |-> ""]
AllIdle == \A p \in Procs : pc[p] = "idle"
Response(op, r) == [op |-> op, status |-> r.status, detail |-> r.detail]

\* The round trip observed: an Upload of one file that began with no request
\* in flight, then the DeleteImage of the reference it returned, with no step
\* of another request on the note, and no other change of the upload
\* directory, in between.  images0 and files0 are the note's images (as a set)
\* and the directory when the Upload began.
NoRT == [phase |-> "none", id |-> NoId, proc |-> 0, ref |-> NoRef,
         images0 |-> {}, files0 |-> {}]
\* a step of a request on note_id that is not part of the round trip
RtOther(note_id) ==
    IF rt.phase # "none" /\ (note_id = rt.id \/ files' # files) THEN NoRT ELSE rt

Init ==
    /\ rt = NoRT
    /\ notes = [i \in {} |-> 0]
    /\ files = {}
    /\ nextId = 1
    /\ nextName = 1
    /\ clock = 0
    /\ pc = [p \in Procs |-> "idle"]
    /\ local = [p \in Procs |-> NoLocal]
    /\ served = NoResp

\* time passes, up to max
TickUpTo(max) ==
    /\ clock < max
    /\ clock' = clock + 1
    /\ UNCHANGED <<notes, files, nextId, nextName, pc, local, served, rt>>

Tick == TickUpTo(MaxClock)

\* GET /notes
ListNotes ==
    /\ list_notes # {}
    /\ served' = Response("list_notes", Returned(200, ""))
    /\ UNCHANGED <<notes, files, nextId, nextName, clock, pc, local, rt>>

\* GET /notes/{note_id}
GetNote(note_id) ==
    /\ LET r == get_note(note_id)
       IN  served' = IF r.exc = "none" THEN Response("get_note", r) ELSE served
    /\ UNCHANGED <<notes, files, nextId, nextName, clock, pc, local>>
    /\ rt' = RtOther(note_id)

\* POST /notes: a payload the schema rejects is answered 422 before the handler
\* runs; otherwise insert_one under a fresh _id and the read-back
CreateNoteUpTo(payload, max) ==
    /\ IF ~NoteCreate_validate(payload)
       THEN /\ served' = Response("create_note", Returned(422, ""))
            /\ UNCHANGED <<notes, nextId>>
       ELSE /\ nextId <= max
            /\ notes' = insert_one(notes, ObjectId(nextId), create_doc(payload, clock))
            /\ nextId' = nextId + 1
            /\ served' = Response("create_note", Returned(201, ""))
    /\ UNCHANGED <<files, nextName, clock, pc, local, rt>>

CreateNote(payload) == CreateNoteUpTo(payload, MaxNotes)

\* PUT /notes/{note_id}: 422 before the handler runs, as for POST /notes
UpdateNote(note_id, payload) ==
    /\ IF ~NoteUpdate_validate(payload)
       THEN /\ served' = Response("update_note", Returned(422, ""))
            /\ UNCHANGED notes
       ELSE LET r == update_note(note_id)
            IN  /\ notes' = update_note_store(note_id, payload)
                /\ served' = IF r.exc = "none" THEN Response("update_note", r) ELSE served
    /\ UNCHANGED <<files, nextId, nextName, clock, pc, local>>
    /\ rt' = RtOther(note_id)

\* DELETE /notes/{note_id}
DeleteNote(note_id) ==
    /\ LET r == delete_note(note_id)
       IN  /\ notes' = delete_note_store(note_id)
           /\ served' = IF r.exc = "none" THEN Response("delete_note", r) ELSE served
    /\ files' = delete_note_files(note_id)
    /\ UNCHANGED <<nextId, nextName, clock, pc, local>>
    /\ rt' = RtOther(note_id)

\* POST /notes/{note_id}/images, to the await of find_one_and_update
UploadSave(p, note_id, fs) ==
    /\ pc[p] = "idle"
    /\ LET r == upload_images_save(note_id, fs)
       IN  /\ r.next <= MaxNames + 1
           /\ files' = files \cup {Basename(u) : u \in Range(r.saved_urls)}
           /\ nextName' = r.next
           /\ IF r.exc = "none"
              THEN /\ pc' = [pc EXCEPT ![p] = "upload_persist"]
                   /\ local' = [local EXCEPT ![p] =
                          [note_id |-> note_id, images |-> notes[note_id].images,
                           saved_urls |-> r.saved_urls, url |-> NoRef, nfiles |-> Len(fs),
                           removed |-> {}]]
                   /\ UNCHANGED served
                   /\ rt' = IF AllIdle /\ Len(fs) = 1
                            THEN [phase |-> "uploading", id |-> note_id, proc |-> p,
                                  ref |-> r.saved_urls[1],
                                  images0 |-> Range(notes[note_id].images), files0 |-> files]
                            ELSE RtOther(note_id)
              ELSE /\ served' = IF r.saved_urls # <<>> \/ r.detail = "Image limit reached"
                                THEN Response("upload_images", r) ELSE served
                   /\ rt' = RtOther(note_id)
                   /\ UNCHANGED <<pc, local>>
    /\ UNCHANGED <<notes, nextId, clock>>

\* POST /notes/{note_id}/images, from find_one_and_update on
UploadPersist(p) ==
    /\ pc[p] = "upload_persist"
    /\ notes' = upload_images_store(local[p].note_id, local[p].images, local[p].saved_urls)
    /\ served' = Response("upload_images", upload_images_persist(local[p].note_id))
    /\ pc' = [pc EXCEPT ![p] = "idle"]
    /\ local' = [local EXCEPT ![p] = NoLocal]
    /\ UNCHANGED <<files, nextId, nextName, clock>>
    /\ rt' = IF rt.phase = "uploading" /\ rt.proc = p
             THEN IF upload_images_persist(local[p].note_id).exc = "none"
                  THEN [rt EXCEPT !.phase = "uploaded"] ELSE NoRT
             ELSE RtOther(local[p].note_id)

\* DELETE /notes/{note_id}/images?url=..., to the await of find_one_and_update
DeleteImageFetch(p, note_id, url) ==
    /\ pc[p] = "idle"
    /\ LET r == delete_image_fetch(note_id, url)
       IN  IF r.exc = "none"
           THEN /\ files' = remove_file(files, url)
                /\ pc' = [pc EXCEPT ![p] = "delete_persist"]
                /\ local' = [local EXCEPT ![p] =
                       [note_id |-> note_id, images |-> notes[note_id].images,
                        saved_urls |-> <<>>, url |-> url, nfiles |-> 0,
                        removed |-> files \ remove_file(files, url)]]
                /\ rt' = IF rt.phase = "uploaded" /\ rt.id = note_id /\ rt.ref = url
                         THEN [rt EXCEPT !.phase = "deleting", !.proc = p]
                         ELSE RtOther(note_id)
                /\ UNCHANGED served
           ELSE /\ UNCHANGED <<files, pc, local>>
                /\ rt' = RtOther(note_id)
                /\ served' = IF r.detail = "Image not found on this note"
                             THEN Response("delete_image", r) ELSE served
    /\ UNCHANGED <<notes, nextId, nextName, clock>>

\* DELETE /notes/{note_id}/images?url=..., from find_one_and_update on
DeleteImagePersist(p) ==
    /\ pc[p] = "delete_persist"
    /\ notes' = delete_image_store(local[p].note_id, local[p].images, local[p].url)
    /\ served' = Response("delete_image", delete_image_persist(local[p].note_id))
    /\ pc' = [pc EXCEPT ![p] = "idle"]
    /\ local' = [local EXCEPT ![p] = NoLocal]
    /\ UNCHANGED <<files, nextId, nextName, clock>>
    /\ rt' = IF rt.phase = "deleting" /\ rt.proc = p
             THEN IF delete_image_persist(local[p].note_id).exc = "none"
                  THEN [rt EXCEPT !.phase = "done"] ELSE NoRT
             ELSE RtOther(local[p].note_id)

Next ==
    \/ Tick
    \/ ListNotes
    \/ \E note_id \in RequestIds : GetNote(note_id)
    \/ \E payload \in NoteCreatePayloads : CreateNote(payload)
    \/ \E note_id \in RequestIds, payload \in NoteUpdatePayloads : UpdateNote(note_id, payload)
    \/ \E note_id \in RequestIds : DeleteNote(note_id)
    \/ \E p \in Procs, note_id \in RequestIds, fs \in UploadInputs : UploadSave(p, note_id, fs)
    \/ \E p \in Procs : UploadPersist(p)
    \/ \E p \in Procs, note_id \in RequestIds, url \in RequestRefs :
           DeleteImageFetch(p, note_id, url)
    \/ \E p \in Procs : DeleteImagePersist(p)

Spec == Init /\ [][Next]_vars

\* The service with more notes and a longer clock, its clients sending one
\* shape of each request: a title and nothing else to Create, no field to
\* Update, one acceptable file to Upload, a stored reference to DeleteImage;
\* one Upload or DeleteImage is in flight at a time.
ListIds == {ObjectId(i) : i \in 1..MaxListNotes}
ListCreatePayload == [title |-> TITLE_MIN_LENGTH, content |-> "", images |-> <<>>]
ListUpload == <<[content_type |-> "image/png", size |-> MAX_FILE_SIZE_MB * MB]>>

ListNext ==
    \/ TickUpTo(MaxListClock)
    \/ ListNotes
    \/ CreateNoteUpTo(ListCreatePayload, MaxListNotes)
    \/ \E note_id \in ListIds : UpdateNote(note_id, EmptyDict)
    \/ \E note_id \in ListIds : DeleteNote(note_id)
    \/ \E note_id \in ListIds : UploadSave(1, note_id, ListUpload)
    \/ UploadPersist(1)
    \/ \E note_id \in ListIds, url \in StoredRefs : DeleteImageFetch(1, note_id, url)
    \/ DeleteImagePersist(1)

ListSpec == Init /\ [][ListNext]_vars

----------------------------------------------------------------------------
(* Properties *)

\* the well-formed ids with no stored note: never assigned, or removed
AbsentIds == WellFormedIds \ DOMAIN notes
ValidUpdatePayloads == {pl \in NoteUpdatePayloads : NoteUpdate_validate(pl)}

\* C1: for every well-formed id with no stored note (never created, or removed
\* by a successful Delete), Get, Update and Delete each answer 404 and leave
\* the collection unchanged.
C1_AbsentAnswersNotFound ==
    \A id \in AbsentIds :
        /\ get_note(id).status = 404
        /\ delete_note(id).status = 404
        /\ delete_note_store(id) = notes
        /\ update_note(id).status = 404
        /\ \A pl \in ValidUpdatePayloads : update_note_store(id, pl) = notes

\* C2: in every reachable state every reference in every stored note's images
\* names a file that exists in the upload directory.
C2_ImagesExist ==
    \A id \in DOMAIN notes : \A u \in Range(notes[id].images) : Exists(u)

\* a file the loop of upload_images accepts
Accepted(f) == f.content_type \in ALLOWED_MIME /\ ~TooLarge(f.size)
FreeSlots(id) == MAX_FILES_PER_NOTE - Len(notes[id].images)
\* the requests in flight that have read note id and not yet written it
Uploading(p) == pc[p] = "upload_persist"
Deleting(p) == pc[p] = "delete_persist"

\* C3: an Upload of k >= 1 files to a note holding n < MAX_FILES_PER_NOTE
\* images, the first min(k, MAX_FILES_PER_NOTE - n) of them of allowed type
\* and size, succeeds, writes exactly that many new files and appends their
\* references, in upload order, to the end of the images it read; the files
\* beyond the free slots are not examined, whatever they are.
C3_OfRequest(id, fs) ==
    LET n == Len(notes[id].images)
        m == Min(Len(fs), MAX_FILES_PER_NOTE - n)
        r == upload_images_save(id, fs)
        written == {Basename(u) : u \in Range(r.saved_urls)}
        after == upload_images_store(id, notes[id].images, r.saved_urls)
    IN  (n < MAX_FILES_PER_NOTE /\ \A i \in 1..m : Accepted(fs[i])) =>
            /\ r.exc = "none" /\ r.status = 200
            /\ Len(r.saved_urls) = m
            /\ Cardinality(written) = m /\ written \cap files = {}
            /\ \A i \in 1..m : /\ r.saved_urls[i].name.ext = Ext(fs[i].content_type)
                               /\ r.saved_urls[i].name.hex = nextName + i - 1
            /\ Len(after[id].images) = n + m
            /\ SubSeq(after[id].images, 1, n) = notes[id].images
            /\ SubSeq(after[id].images, n + 1, n + m) = r.saved_urls

C3_OfFlight(p) ==
    Uploading(p) =>
        /\ Len(local[p].saved_urls) =
               Min(local[p].nfiles, MAX_FILES_PER_NOTE - Len(local[p].images))
        /\ \A u \in Range(local[p].saved_urls) : u.name.hex < nextName

C3_UploadAppends ==
    /\ \A id \in DOMAIN notes : \A fs \in UploadInputs : C3_OfRequest(id, fs)
    /\ \A p \in Procs : C3_OfFlight(p)

\* C3 witness: an upload in flight that was given more files than the note had
\* free slots and saved exactly the free slots
C3_Witness ==
    \E p \in Procs :
        /\ Uploading(p)
        /\ Len(local[p].images) >= 1
        /\ local[p].nfiles > MAX_FILES_PER_NOTE - Len(local[p].images)
        /\ Len(local[p].saved_urls) = MAX_FILES_PER_NOTE - Len(local[p].images)
        /\ \A u \in Range(local[p].saved_urls) : Basename(u) \in files

\* C4: when a file among the accepted (post-truncation) files of an Upload is
\* of a disallowed type or too large, the call fails with the 400 of the first
\* such file (type before size), the note is unchanged, and the files added
\* are exactly those of the accepted files before the failing one.
C4_OfRequest(id, fs) ==
    LET m == Min(Len(fs), FreeSlots(id))
        bad == {i \in 1..m : ~Accepted(fs[i])}
        r == upload_images_save(id, fs)
    IN  (FreeSlots(id) > 0 /\ bad # {}) =>
            LET j == CHOOSE i \in bad : \A k \in bad : i <= k
            IN  /\ r.exc = "HTTPException" /\ r.status = 400
                /\ r.detail = IF fs[j].content_type \notin ALLOWED_MIME
                              THEN "Unsupported type" ELSE "File too large"
                /\ Len(r.saved_urls) = j - 1
                /\ r.next = nextName + j - 1
                /\ \A i \in 1..(j - 1) :
                       r.saved_urls[i] = SavedUrl(nextName + i - 1, fs[i].content_type)

\* a step in which an upload draws names and does not go on to the write: it
\* failed after saving; the collection is as it was and the directory has
\* gained exactly the files named in this step
C4_FailedStep ==
    (nextName' > nextName /\ pc' = pc) =>
        /\ notes' = notes
        /\ served' .op = "upload_images" /\ served'.status = 400
        /\ files \subseteq files'
        /\ {f.hex : f \in files' \ files} = nextName..(nextName' - 1)
        /\ Cardinality(files' \ files) = nextName' - nextName

C4_UploadRejects ==
    /\ [](\A id \in DOMAIN notes : \A fs \in UploadInputs : C4_OfRequest(id, fs))
    /\ [][C4_FailedStep]_vars

\* C4 witness: an upload has been answered 400 after it saved a file
C4_Witness ==
    /\ served.op = "upload_images" /\ served.status = 400
    /\ served.detail = "File too large"
    /\ files # {}
    /\ \E id \in DOMAIN notes : notes[id].images = <<>>

\* C5: DeleteImage of a reference the note's images contain removes exactly
\* one entry, that reference, keeps the other entries in their order, and
\* afterwards the backing file is not in the upload directory; for every
\* reachable list, also one built by Create or holding a reference twice.
RemoveAt(seq, i) == [j \in 1..(Len(seq) - 1) |-> IF j < i THEN seq[j] ELSE seq[j + 1]]
C5_PersistStep(p) ==
    (/\ Deleting(p) /\ pc'[p] = "idle"
     /\ local[p].note_id \in DOMAIN notes
     /\ notes[local[p].note_id].images = local[p].images) =>
        /\ \E i \in 1..Len(local[p].images) :
               /\ local[p].images[i] = local[p].url
               /\ notes'[local[p].note_id].images = RemoveAt(local[p].images, i)
        /\ Basename(local[p].url) \notin files' \/ ~StartsWithUploads(local[p].url)
C5_DeleteRemovesOne == [][\A p \in Procs : C5_PersistStep(p)]_vars

\* C6: for Get, Update, Delete, Upload and DeleteImage a malformed note id is
\* answered as a well-formed id with no stored note is, with 404, and no state
\* changes.
C6_MalformedAsAbsent ==
    \A bad \in MalformedIds :
        /\ get_note(bad).status = 404
        /\ delete_note(bad).status = 404 /\ delete_note_store(bad) = notes
        /\ update_note(bad).status = 404
        /\ \A pl \in ValidUpdatePayloads : update_note_store(bad, pl) = notes
        /\ \A fs \in UploadInputs :
               /\ upload_images_save(bad, fs).status = 404
               /\ upload_images_save(bad, fs).saved_urls = <<>>
               /\ \A id \in AbsentIds :
                      upload_images_save(bad, fs) = upload_images_save(id, fs)
        /\ \A u \in KnownRefs :
               /\ delete_image_fetch(bad, u).status = 404
               /\ \A id \in AbsentIds : delete_image_fetch(bad, u) = delete_image_fetch(id, u)

\* C7: every note a successful Create inserts has images = [] and
\* created_at = updated_at, whatever the payload held.
C7_CreateStep ==
    \A id \in DOMAIN notes' \ DOMAIN notes :
        /\ notes'[id].images = <<>>
        /\ notes'[id].created_at = notes'[id].updated_at
C7_CreateEmptyImages == [][C7_CreateStep]_vars

UploadRefs(seq) == {u \in Range(seq) : u.dir = "/uploads/"}
\* the files of the upload directory that note id does not reference
Unreferenced(id) == {f \in files : Ref("/uploads/", f) \notin Range(notes[id].images)}

\* C8 (as stated): when an Upload writes its list after a concurrent Upload to
\* the same note has appended its references, the two having observed free
\* slots and jointly holding more references than the quota allows, the stored
\* images list has more than MAX_FILES_PER_NOTE entries.
C8_RacingPersist(p) ==
    LET id == local[p].note_id
        read == local[p].images
    IN  (/\ Uploading(p) /\ pc'[p] = "idle"
         /\ id \in DOMAIN notes
         /\ Len(notes[id].images) > Len(read)
         /\ Len(notes[id].images) <= MAX_FILES_PER_NOTE
         /\ SubSeq(notes[id].images, 1, Len(read)) = read
         /\ Len(notes[id].images) + Len(local[p].saved_urls) > MAX_FILES_PER_NOTE) =>
            Len(notes'[id].images) > MAX_FILES_PER_NOTE
C8_PersistStep(p) ==
    (Uploading(p) /\ pc'[p] = "idle" /\ local[p].note_id \in DOMAIN notes) =>
        /\ notes'[local[p].note_id].images = local[p].images \o local[p].saved_urls
        /\ Len(notes'[local[p].note_id].images) <= MAX_FILES_PER_NOTE
C8_Step ==
    /\ \A p \in Procs : C8_PersistStep(p)
    /\ \A id \in DOMAIN notes \cap DOMAIN notes' :
           Len(notes[id].images) <= MAX_FILES_PER_NOTE =>
               Len(notes'[id].images) <= MAX_FILES_PER_NOTE
C9_OfRequest(id, pl) ==
    LET after == update_note_store(id, pl)
    IN  /\ update_note(id).status = 200
        /\ DOMAIN after = DOMAIN notes
        /\ \A other \in DOMAIN notes \ {id} : after[other] = notes[other]
        /\ DOMAIN after[id] = DOMAIN notes[id]
        /\ after[id].updated_at = clock
        /\ after[id].images = notes[id].images
        /\ after[id].created_at = notes[id].created_at
        /\ \A f \in {"title", "content"} :
               after[id][f] = IF f \in DOMAIN pl THEN pl[f] ELSE notes[id][f]
C9_UpdateFrame ==
    \A id \in DOMAIN notes : \A pl \in ValidUpdatePayloads : C9_OfRequest(id, pl)

\* C9 witness: an Update has been answered 200 while a DeleteImage or an Upload
\* that read the note was in flight; the note carries the Update's time and
\* the images that request read
C9_Witness ==
    /\ served.op = "update_note" /\ served.status = 200
    /\ \E p \in Procs :
           /\ Uploading(p) \/ Deleting(p)
           /\ local[p].note_id \in DOMAIN notes
           /\ notes[local[p].note_id].images = local[p].images
           /\ local[p].images # <<>>
           /\ notes[local[p].note_id].updated_at > notes[local[p].note_id].created_at
           /\ notes[local[p].note_id].content # ""

\* C10: an Upload of one file and then the DeleteImage of the reference it
\* returned, with no other request on the note in between, leave the note's
\* images equal, as a set, to what they were before the Upload, and the upload
\* directory with the files it had before the Upload.
C10_RoundTrip ==
    /\ rt.phase = "uploaded" =>
           /\ rt.id \in DOMAIN notes
           /\ Range(notes[rt.id].images) = rt.images0 \cup {rt.ref}
           /\ rt.ref \notin rt.images0
           /\ files = rt.files0 \cup {Basename(rt.ref)}
           /\ Basename(rt.ref) \notin rt.files0
    /\ rt.phase = "done" =>
           /\ rt.id \in DOMAIN notes
           /\ Range(notes[rt.id].images) = rt.images0
           /\ files = rt.files0

\* C10 witness: a round trip has completed on a note that held images before
C10_Witness ==
    /\ rt.phase = "done"
    /\ rt.images0 # {}
    /\ served.op = "delete_image" /\ served.status = 200

\* C11: every list List can return holds every stored note exactly once, with
\* its stored fields, in descending order of updated_at; every request that
\* inserts or changes a note stamps it with the current time, and when that is
\* strictly later than every other stored note's updated_at the note is first
\* in every list List can return afterwards.
C11_Listed(l) ==
    /\ Len(l) = Cardinality(DOMAIN notes)
    /\ \A id \in DOMAIN notes : Cardinality({i \in DOMAIN l : l[i]._id = id}) = 1
    /\ \A i \in DOMAIN l :
           /\ l[i]._id \in DOMAIN notes
           /\ \A f \in DOMAIN notes[l[i]._id] : l[i][f] = notes[l[i]._id][f]
    /\ \A i, j \in DOMAIN l : i < j => l[i].updated_at >= l[j].updated_at
    /\ \A id \in DOMAIN notes :
           (\A o \in DOMAIN notes \ {id} : notes[id].updated_at > notes[o].updated_at)
               => l[1]._id = id
C11_Mutated(id) == id \notin DOMAIN notes \/ notes'[id] # notes[id]
C11_MutationStep ==
    \A id \in DOMAIN notes' :
        C11_Mutated(id) =>
            /\ notes'[id].updated_at = clock
            /\ (\A o \in DOMAIN notes' \ {id} : notes'[o].updated_at < clock)
                   => \A l \in list_notes' : l[1]._id = id
C11_ListOrdered ==
    /\ [](list_notes # {} /\ \A l \in list_notes : C11_Listed(l))
    /\ [][C11_MutationStep]_vars

\* C11 witness: List has been answered with three notes stored, their
\* updated_at pairwise different, the latest of them not the one created last
\* and one of them holding an image
C11_Witness ==
    /\ served.op = "list_notes" /\ served.status = 200
    /\ Cardinality(DOMAIN notes) = MaxListNotes
    /\ \A a, b \in DOMAIN notes : a # b => notes[a].updated_at # notes[b].updated_at
    /\ \E a, b \in DOMAIN notes :
           /\ notes[a].created_at < notes[b].created_at
           /\ notes[a].updated_at > notes[b].updated_at
    /\ \E a \in DOMAIN notes : notes[a].images # <<>>

\* C12: DeleteImage of a reference that a stored note's images do not contain
\* is answered 404 "Image not found on this note", also when a file of that
\* name is in the upload directory, and changes nothing: a file leaves the
\* upload directory only in a DeleteImage of a reference its note contains.
C12_NotFound == Raised("HTTPException", 404, "Image not found on this note")
C12_OfRequest(id, url) ==
    url \notin Range(notes[id].images) => delete_image_fetch(id, url) = C12_NotFound
C12_RefusedStep ==
    (served' # served /\ served' = Response("delete_image", C12_NotFound)) =>
        UNCHANGED <<notes, files, nextId, nextName, clock, pc, local>>
C12_RemovalStep ==
    files \ files' # {} =>
        \E p \in Procs :
            /\ pc[p] = "idle" /\ pc'[p] = "delete_persist"
            /\ local'[p].note_id \in DOMAIN notes
            /\ local'[p].url \in Range(notes[local'[p].note_id].images)
            /\ files \ files' = {Basename(local'[p].url)}
            /\ files' \subseteq files
C12_DeleteAbsentImage ==
    /\ [](\A id \in DOMAIN notes : \A url \in RequestRefs : C12_OfRequest(id, url))
    /\ [][C12_RefusedStep /\ C12_RemovalStep]_vars

\* C12 witness: a DeleteImage has been answered 404 for the image, with no
\* request in flight, on a note that holds an image while the upload directory
\* holds a file the note does not reference
C12_Witness ==
    /\ AllIdle
    /\ served = Response("delete_image", C12_NotFound)
    /\ \E id \in DOMAIN notes : notes[id].images # <<>> /\ Unreferenced(id) # {}

\* C13: the schema of Create, and of Update for a title it supplies, rejects
\* the title exactly when its length is 0 or more than 200; a rejected request
\* is answered 422 and leaves the collection as it was, and no title the
\* schema rejects is ever stored.
C13_Lengths == 0..(TITLE_MAX_LENGTH + 1)
C13_InRange(t) == t >= 1 /\ t <= 200
C13_Schema ==
    /\ \A t \in C13_Lengths : TitleValid(t) <=> C13_InRange(t)
    /\ \A pl \in NoteCreatePayloads : NoteCreate_validate(pl) <=> C13_InRange(pl.title)
    /\ \A pl \in NoteUpdatePayloads :
           NoteUpdate_validate(pl) <=> ("title" \in DOMAIN pl => C13_InRange(pl.title))
C13_RejectedStep ==
    (served' # served /\ served'.status = 422) =>
        /\ served'.op \in {"create_note", "update_note"}
        /\ UNCHANGED <<notes, files, nextId, nextName, clock, pc, local>>
C13_StoredStep ==
    \A id \in DOMAIN notes' :
        (id \notin DOMAIN notes \/ notes'[id].title # notes[id].title) =>
            /\ C13_InRange(notes'[id].title)
            /\ served'.op \in {"create_note", "update_note"}
            /\ served'.status \in {200, 201}
C13_TitleValidated ==
    /\ [](C13_Schema /\ \A id \in DOMAIN notes : C13_InRange(notes[id].title))
    /\ [][C13_RejectedStep /\ C13_StoredStep]_vars

\* C13 witness: an Update has been answered 422 on a stored note whose title,
\* of length 200, a Create or an Update was accepted with
C13_Witness ==
    /\ served = Response("update_note", Returned(422, ""))
    /\ \E id \in DOMAIN notes : notes[id].title = TITLE_MAX_LENGTH

\* C14: an Upload to a stored note whose images hold MAX_FILES_PER_NOTE or
\* more entries is answered 400 "Image limit reached", whatever its files are
\* (none is examined), writes no file and changes nothing; an Upload goes on
\* to its files only for a note with a free slot.
C14_Quota ==
    [exc |-> "HTTPException", status |-> 400, detail |-> "Image limit reached",
     saved_urls |-> <<>>, next |-> nextName]
C14_OfRequest(id, fs) ==
    Len(notes[id].images) >= MAX_FILES_PER_NOTE => upload_images_save(id, fs) = C14_Quota
C14_RefusedStep ==
    (served' # served /\ served' = Response("upload_images", C14_Quota)) =>
        UNCHANGED <<notes, files, nextId, nextName, clock, pc, local>>
C14_AcceptedStep ==
    /\ \A p \in Procs :
           (pc[p] = "idle" /\ pc'[p] = "upload_persist") =>
               Len(notes[local'[p].note_id].images) < MAX_FILES_PER_NOTE
    /\ (files' \ files # {} \/ nextName' # nextName) =>
           \E id \in DOMAIN notes : Len(notes[id].images) < MAX_FILES_PER_NOTE
C14_UploadOverQuota ==
    /\ [](\A id \in DOMAIN notes : \A fs \in UploadInputs : C14_OfRequest(id, fs))
    /\ [][C14_RefusedStep /\ C14_AcceptedStep]_vars

\* C14 witness: an Upload has been answered 400 for the quota, with no request
\* in flight, every stored note being full and one of them filled by uploads
C14_Witness ==
    /\ AllIdle
    /\ served = Response("upload_images", C14_Quota)
    /\ \A id \in DOMAIN notes : Len(notes[id].images) >= MAX_FILES_PER_NOTE
    /\ \E id \in DOMAIN notes :
           /\ Len(notes[id].images) = MAX_FILES_PER_NOTE
           /\ \A u \in Range(notes[id].images) : Exists(u)

\* C15: the clock never going back, every stored note has updated_at >=
\* created_at in every reachable state; and a step of Update, Upload or
\* DeleteImage keeps the ids of the stored notes and every note's created_at.
C15_Ordered ==
    \A id \in DOMAIN notes :
        /\ notes[id].created_at <= notes[id].updated_at
        /\ notes[id].updated_at <= clock
C15_Step ==
    /\ clock' >= clock
    /\ \A id \in DOMAIN notes \cap DOMAIN notes' :
           /\ notes'[id].created_at = notes[id].created_at
           /\ notes'[id].updated_at >= notes[id].updated_at
    /\ (served' # served /\ served'.op \in {"update_note", "upload_images", "delete_image"})
           => DOMAIN notes' = DOMAIN notes
    /\ \A id \in DOMAIN notes' \ DOMAIN notes : notes'[id].created_at = clock
C15_Timestamps == []C15_Ordered /\ [][C15_Step]_vars

\* C15 witness: an Upload or a DeleteImage has written, at a later time, a note
\* created before
C15_Witness ==
    /\ AllIdle
    /\ served.op \in {"upload_images", "delete_image"} /\ served.status = 200
    /\ \E id \in DOMAIN notes :
           /\ notes[id].created_at < notes[id].updated_at
           /\ notes[id].updated_at = clock

\* C16: a DeleteImage that is answered a failure has changed neither the
\* collection nor the upload directory: when its write finds no note and the
\* request ends in 500, it has removed no file.  (Get, Create, Update and
\* Delete make one store call and no file operation; their failures are C1,
\* C6 and C13.)
C16_FailedDeleteImage(p) ==
    (/\ Deleting(p) /\ pc'[p] = "idle"
     /\ delete_image_persist(local[p].note_id).status # 200) =>
        /\ notes' = notes
        /\ local[p].removed = {}
C16_NoPartialSuccess == [][\A p \in Procs : C16_FailedDeleteImage(p)]_vars

\* C17: the write of a successful Upload keeps every entry the note holds at
\* the write and adds only the Upload's own references after them; the write
\* of a successful DeleteImage removes only the named reference from what the
\* note holds at the write and adds nothing: no reference another Upload added
\* since the read is dropped, none another DeleteImage removed is put back.
C17_UploadWrite(p) ==
    LET id == local[p].note_id
    IN  (Uploading(p) /\ pc'[p] = "idle" /\ id \in DOMAIN notes) =>
            notes'[id].images = notes[id].images \o local[p].saved_urls
C17_DeleteImageWrite(p) ==
    LET id == local[p].note_id
    IN  (Deleting(p) /\ pc'[p] = "idle" /\ id \in DOMAIN notes) =>
            notes'[id].images = SelectSeq(notes[id].images, LAMBDA u : u # local[p].url)
C17_AtomicListWrite ==
    [][\A p \in Procs : C17_UploadWrite(p) /\ C17_DeleteImageWrite(p)]_vars

\* C18: an id that was assigned and is not stored (its note was removed by
\* Delete) is never stored again: no write of an Update, Upload or DeleteImage
\* that finds no note inserts one, and Create assigns an id never assigned
\* before.
C18_Assigned == {ObjectId(i) : i \in 1..(nextId - 1)}
C18_Removed(id) == id \in C18_Assigned /\ id \notin DOMAIN notes
C18_Step ==
    /\ \A id \in C18_Assigned : C18_Removed(id) => C18_Removed(id)'
    /\ \A id \in DOMAIN notes' \ DOMAIN notes :
           /\ id \notin C18_Assigned
           /\ served' = Response("create_note", Returned(201, ""))
    /\ \A id \in DOMAIN notes \ DOMAIN notes' :
           /\ C18_Removed(id)'
           /\ served' = Response("delete_note", Returned(204, ""))
C18_NeverStoredAgain ==
    /\ [](DOMAIN notes \subseteq C18_Assigned)
    /\ [][C18_Step]_vars

\* C18 witness: an Upload or DeleteImage that read a note has written after the
\* note's Delete and ended in 500; the removed id is not stored, and a note
\* is stored under an id assigned later
C18_Witness ==
    /\ AllIdle
    /\ served.op \in {"upload_images", "delete_image"} /\ served.status = 500
    /\ \E id \in C18_Assigned :
           /\ C18_Removed(id)
           /\ \E later \in DOMAIN notes : later.k > id.k /\ notes[later].images = <<>>

\* C19: a Delete that removes a note leaves the upload directory as it was:
\* every file the removed note's images reference is still there.
C19_DeleteStep ==
    \A id \in DOMAIN notes \ DOMAIN notes' :
        /\ files' = files
        /\ \A u \in Range(notes[id].images) : Exists(u) => Exists(u)'
C19_DeleteKeepsFiles == [][C19_DeleteStep]_vars

\* C19 witness: Delete has been answered 204 for the note that an Upload in
\* flight had read with images in it; the note is gone and every file those
\* images reference is in the upload directory
C19_Witness ==
    /\ served = Response("delete_note", Returned(204, ""))
    /\ \E p \in Procs :
           /\ Uploading(p)
           /\ local[p].note_id \notin DOMAIN notes
           /\ local[p].images # <<>>
           /\ \A u \in Range(local[p].images) : Exists(u)

====
